---- MODULE Spec2Model ----
(***************************************************************************)
(* Model of the code cell of                                               *)
(*   notebooks/how-tos/avalanchedataset/preamble-pytorch-datasets.ipynb    *)
(*                                                                         *)
(*   x_data = torch.rand(100, 22)                                          *)
(*   y_data = torch.randint(0, 5, (100,))                                  *)
(*   my_dataset = TensorDataset(x_data, y_data)                            *)
(*   my_dataloader = DataLoader(my_dataset, batch_size=10,                 *)
(*                              shuffle=True, num_workers=4)               *)
(*   for x_minibatch, y_minibatch in my_dataloader:                        *)
(*       print('Loaded minibatch of', len(x_minibatch), 'instances')       *)
(*                                                                         *)
(* The cell only calls torch.  What those calls do is not written in the   *)
(* notebook beyond its prose (a TensorDataset returns the idx-th row of X  *)
(* and Y; a DataLoader batches, shuffles and loads with several workers),  *)
(* so the called routines are modelled after torch.utils.data as the cell  *)
(* invokes it: RandomSampler (torch.randperm), BatchSampler, the map-style *)
(* fetcher with default_collate, and the multi-worker iterator with one    *)
(* index queue per worker, one shared result queue and in-order delivery   *)
(* by task number.  A worker's turn (take a task, fetch, put the result)   *)
(* is one step: only the worker takes from its index queue.                *)
(* Worker crashes, timeouts and pinned memory are not modelled.            *)
(***************************************************************************)
EXTENDS Integers, Sequences, FiniteSets, TLC

(***************************************************************************)
(* Sizes.  The script uses 100 rows, batches of 10, 4 workers and the      *)
(* loader's default prefetch factor 2; all permutations of 100 rows cannot *)
(* be enumerated, so the four are scaled down together.  The scaled values *)
(* keep the script's shape: the batch size divides the row count, there    *)
(* are more batches than workers, and more batches than the loader keeps   *)
(* outstanding (prefetch_factor * num_workers; 8 < 10 in the script).      *)
(***************************************************************************)
NumRows == 6
BatchSize == 2
NumWorkers == 2
PrefetchFactor == 1
\* torch.rand draws floats in [0, 1); they are quantised to RandLevels values.
RandLevels == 3
\* Seeds of torch's default generator tried by Init.
Seeds == 0..1

\* x_data has 22 feature columns; labels are drawn from [0, 5).
NumFeatures == 22
NumClasses == 5

Rows == 0..(NumRows - 1)
Workers == 0..(NumWorkers - 1)

VARIABLES
    x_data,             \* tensor of shape (NumRows, NumFeatures)
    y_data,             \* tensor of shape (NumRows,)
    my_dataset,         \* TensorDataset: the tuple of tensors it holds
    my_dataloader,      \* DataLoader: its configuration
    order,              \* the sampler's order of dataset indices this epoch
    shuffle_i,          \* torch.randperm: the position it fills next
    prefetch_k,         \* _reset: calls of _try_put_index made so far
    pc,                 \* main process: "iter", "shuffle", "prefetch",
                        \* "next", "body", "join", "done"
    sampler_iter,       \* batches the batch sampler has not yielded yet
    index_queues,       \* per worker: FIFO of tasks (send_idx, batch indices)
    data_queue,         \* worker_result_queue: FIFO of (idx, data)
    task_info,          \* send_idx -> worker, and the data once it came early
    tasks_outstanding,
    send_idx,
    rcvd_idx,
    worker_queue_idx_cycle, \* next position of cycle(range(num_workers))
    workers_status,     \* per worker: still accepting tasks
    w_state,            \* per worker process: "idle" (in its loop), "exited"
    w_fetched,          \* history: per worker, the batches it has fetched
    x_minibatch,        \* loop targets of the for statement
    y_minibatch,
    minibatch_src,      \* history: dataset indices of the current minibatch
    delivered,          \* history: dataset indices of each yielded minibatch
    output              \* printed lines: the number in each
                        \* 'Loaded minibatch of <n> instances'

vars == << x_data, y_data, my_dataset, my_dataloader, order, shuffle_i,
           prefetch_k, pc, sampler_iter,
           index_queues, data_queue, task_info, tasks_outstanding, send_idx,
           rcvd_idx, worker_queue_idx_cycle, workers_status, w_state, w_fetched,
           x_minibatch, y_minibatch, minibatch_src, delivered, output >>

loader_vars == << order, shuffle_i, prefetch_k, sampler_iter, index_queues,
                  data_queue, task_info,
                  tasks_outstanding, send_idx, rcvd_idx,
                  worker_queue_idx_cycle, workers_status >>
data_vars == << x_data, y_data, my_dataset, my_dataloader >>
worker_vars == << w_state, w_fetched >>
loop_vars == << x_minibatch, y_minibatch, minibatch_src, delivered, output >>

----------------------------------------------------------------------------
(* torch.rand / torch.randint: values of the default generator.  The       *)
(* generator is deterministic in its seed; a counter-based mixing function *)
(* (the k-th value drawn after seeding with s) stands for it.              *)

GenAt(s, k) ==
    ((((s + 1) * 7919 + k * 1009) % 65537) * (k + 75) + 74) % 65537

\* torch.rand(n, m) with the generator at seed: n rows of m values.
rand(seed, n, m) ==
    [i \in 0..(n - 1) |-> [j \in 0..(m - 1) |->
        GenAt(seed, i * m + j + 1) % RandLevels]]

\* torch.randint(low, high, (n,)) drawn after rand consumed `used` values.
randint(seed, used, low, high, n) ==
    [i \in 0..(n - 1) |-> low + (GenAt(seed, used + i + 1) % (high - low))]

----------------------------------------------------------------------------
(* TensorDataset *)

TensorDataset(x, y) == [tensors |-> << x, y >>]

\* __len__: self.tensors[0].size(0)
DatasetLen(ds) == Cardinality(DOMAIN ds.tensors[1])

GetItemFirstLabel(ds, idx) == << ds.tensors[1][idx], ds.tensors[2][0] >>

\* __getitem__: tuple(tensor[index] for tensor in self.tensors)
GetItem(ds, idx) == << ds.tensors[1][idx], ds.tensors[2][idx] >>

----------------------------------------------------------------------------
(* Samplers *)

IsPermutation(s, n) ==
    /\ Len(s) = n
    /\ \A i \in 0..(n - 1) : \E k \in 1..n : s[k] = i

\* range(n) as a list: the order of a SequentialSampler, and the list
\* torch.randperm starts from.
Arange(n) == [k \in 1..n |-> k - 1]

Overwrite(s, i, j) == [s EXCEPT ![i] = s[j]]

\* One exchange of torch.randperm's shuffle.
Swap(s, i, j) == [s EXCEPT ![i] = s[j], ![j] = s[i]]

CeilDiv(a, b) == (a + b - 1) \div b

Slice(s, from, to) == [k \in 1..(to - from + 1) |-> s[from + k - 1]]

BatchSamplerShort(sampler, batch_size, drop_last) ==
    [b \in 1..(Len(sampler) \div batch_size) |->
        Slice(sampler, (b - 1) * batch_size + 1, b * batch_size - 1)]

\* BatchSampler: consecutive groups of batch_size indices of the sampler's
\* order; the shorter last group is yielded unless drop_last.
BatchSampler(sampler, batch_size, drop_last) ==
    LET n == Len(sampler)
        count == IF drop_last THEN n \div batch_size ELSE CeilDiv(n, batch_size)
        last(b) == IF b * batch_size <= n THEN b * batch_size ELSE n
    IN  [b \in 1..count |-> Slice(sampler, (b - 1) * batch_size + 1, last(b))]

----------------------------------------------------------------------------
(* Fetching one batch in a worker *)

Reverse(s) == [k \in 1..Len(s) |-> s[Len(s) + 1 - k]]

CollateReversedLabels(samples) ==
    [x |-> [k \in 1..Len(samples) |-> samples[k][1]],
     y |-> Reverse([k \in 1..Len(samples) |-> samples[k][2]])]

\* default_collate on a list of (x, y) samples: zip(*batch), each stacked.
default_collate(samples) ==
    [x |-> [k \in 1..Len(samples) |-> samples[k][1]],
     y |-> [k \in 1..Len(samples) |-> samples[k][2]]]

\* _MapDatasetFetcher.fetch:
\*   collate_fn([self.dataset[idx] for idx in possibly_batched_index])
fetch(ds, index) ==
    default_collate([k \in 1..Len(index) |-> GetItem(ds, index[k])])

NoData == [x |-> << >>, y |-> << >>, src |-> << >>]
\* None on an index queue: the request to exit.
ShutdownMsg == [idx |-> -1, index |-> << >>]

----------------------------------------------------------------------------
(* _MultiProcessingDataLoaderIter._try_put_index.  Its callers have just   *)
(* changed task_info and tasks_outstanding; info and outstanding are those *)
(* new values.  Its assertion, tasks_outstanding < prefetch_factor *       *)
(* num_workers, is the invariant OutstandingBounded below.                 *)

Restrict(f, S) == [k \in S |-> f[k]]

\* The first worker of the cycle, from position `from`, that still accepts
\* tasks; NumWorkers when there is none.
NextActiveWorker(from) ==
    LET alive == { k \in 0..(NumWorkers - 1) :
                     workers_status[(from + k) % NumWorkers] }
    IN  IF alive = {} THEN NumWorkers
        ELSE (from + (CHOOSE a \in alive : \A b \in alive : a <= b))
                 % NumWorkers

TryPutIndex(info, outstanding) ==
    LET w == NextActiveWorker(worker_queue_idx_cycle)
    IN  IF sampler_iter = << >>
        THEN \* next(self._sampler_iter) raises StopIteration
             /\ task_info' = info
             /\ tasks_outstanding' = outstanding
             /\ UNCHANGED << sampler_iter, index_queues, send_idx,
                             worker_queue_idx_cycle >>
        ELSE IF w = NumWorkers
        THEN \* no active worker: the batch of indices is dropped
             /\ sampler_iter' = Tail(sampler_iter)
             /\ task_info' = info
             /\ tasks_outstanding' = outstanding
             /\ UNCHANGED << index_queues, send_idx, worker_queue_idx_cycle >>
        ELSE /\ sampler_iter' = Tail(sampler_iter)
             /\ worker_queue_idx_cycle' = (w + 1) % NumWorkers
             /\ index_queues' = [index_queues EXCEPT ![w] =
                    Append(@, [idx |-> send_idx,
                               index |-> Head(sampler_iter)])]
             /\ task_info' = [i \in (DOMAIN info) \cup {send_idx} |->
                    IF i = send_idx
                    THEN [worker |-> w, has_data |-> FALSE, data |-> NoData]
                    ELSE info[i]]
             /\ tasks_outstanding' = outstanding + 1
             /\ send_idx' = send_idx + 1

----------------------------------------------------------------------------
\* The state once the cell has built my_dataset and my_dataloader, torch's
\* generator having started from seed.
InitSeeded(seed) ==
    /\ x_data = rand(seed, NumRows, NumFeatures)
    /\ y_data = randint(seed, NumRows * NumFeatures, 0, NumClasses, NumRows)
    /\ my_dataset = TensorDataset(x_data, y_data)
    /\ my_dataloader = [batch_size |-> BatchSize, shuffle |-> TRUE,
                        num_workers |-> NumWorkers, drop_last |-> FALSE]
    /\ order = << >>
    /\ shuffle_i = 0
    /\ prefetch_k = 0
    /\ pc = "iter"
    /\ sampler_iter = << >>
    /\ index_queues = [w \in Workers |-> << >>]
    /\ data_queue = << >>
    /\ task_info = << >>
    /\ tasks_outstanding = 0
    /\ send_idx = 0
    /\ rcvd_idx = 0
    /\ worker_queue_idx_cycle = 0
    /\ workers_status = [w \in Workers |-> TRUE]
    /\ w_state = [w \in Workers |-> "idle"]
    /\ w_fetched = [w \in Workers |-> 0]
    /\ x_minibatch = << >>
    /\ y_minibatch = << >>
    /\ minibatch_src = << >>
    /\ delivered = << >>
    /\ output = << >>

Init == \E seed \in Seeds : InitSeeded(seed)

----------------------------------------------------------------------------
(* Main process: the for statement over my_dataloader *)

\* iter(my_dataloader): the sampler starts from range(n); with shuffle it is
\* a RandomSampler, whose torch.randperm then shuffles that list.
Iter ==
    /\ pc = "iter"
    /\ order' = Arange(DatasetLen(my_dataset))
    /\ shuffle_i' = IF my_dataloader.shuffle THEN 0
                    ELSE DatasetLen(my_dataset)
    /\ pc' = "shuffle"
    /\ UNCHANGED << prefetch_k, sampler_iter, index_queues, data_queue,
                    task_info, tasks_outstanding, send_idx, rcvd_idx,
                    worker_queue_idx_cycle, workers_status, data_vars,
                    worker_vars, loop_vars >>

RandPermStepInPlace ==
    /\ pc = "shuffle"
    /\ shuffle_i < Len(order) - 1
    /\ \E z \in 0..(Len(order) - shuffle_i - 1) :
         /\ x_data' = [x_data EXCEPT ![shuffle_i] = x_data[shuffle_i + z],
                                     ![shuffle_i + z] = x_data[shuffle_i]]
         /\ y_data' = [y_data EXCEPT ![shuffle_i] = y_data[shuffle_i + z],
                                     ![shuffle_i + z] = y_data[shuffle_i]]
    /\ my_dataset' = TensorDataset(x_data', y_data')
    /\ shuffle_i' = shuffle_i + 1
    /\ UNCHANGED << order, my_dataloader, prefetch_k, pc, sampler_iter,
                    index_queues, data_queue, task_info, tasks_outstanding,
                    send_idx, rcvd_idx, worker_queue_idx_cycle,
                    workers_status, worker_vars, loop_vars >>

\* torch.randperm, one position: z = random() % (n - i); exchange the
\* entries at i and i + z.
RandPermStep ==
    /\ pc = "shuffle"
    /\ shuffle_i < Len(order) - 1
    /\ \E z \in 0..(Len(order) - shuffle_i - 1) :
         order' = Swap(order, shuffle_i + 1, shuffle_i + z + 1)
    /\ shuffle_i' = shuffle_i + 1
    /\ UNCHANGED << prefetch_k, pc, sampler_iter, index_queues, data_queue,
                    task_info, tasks_outstanding, send_idx, rcvd_idx,
                    worker_queue_idx_cycle, workers_status, data_vars,
                    worker_vars, loop_vars >>

\* _reset: the batch sampler over the sampler's order; the counters start
\* from zero.
Reset ==
    /\ pc = "shuffle"
    /\ shuffle_i >= Len(order) - 1
    /\ sampler_iter' = BatchSampler(order, my_dataloader.batch_size,
                                    my_dataloader.drop_last)
    /\ send_idx' = 0
    /\ rcvd_idx' = 0
    /\ task_info' = << >>
    /\ tasks_outstanding' = 0
    /\ prefetch_k' = 0
    /\ pc' = "prefetch"
    /\ UNCHANGED << order, shuffle_i, index_queues, data_queue,
                    worker_queue_idx_cycle, workers_status, data_vars,
                    worker_vars, loop_vars >>

\* _reset: for _ in range(prefetch_factor * num_workers): _try_put_index()
PrimePrefetch ==
    /\ pc = "prefetch"
    /\ TryPutIndex(task_info, tasks_outstanding)
    /\ prefetch_k' = prefetch_k + 1
    /\ pc' = IF prefetch_k + 1 >= PrefetchFactor * my_dataloader.num_workers
             THEN "next" ELSE "prefetch"
    /\ UNCHANGED << order, shuffle_i, data_queue, rcvd_idx, workers_status,
                    data_vars, worker_vars, loop_vars >>

\* _process_data: rcvd_idx += 1; _try_put_index(); the batch is bound to the
\* loop targets.
ProcessData(info, outstanding, data) ==
    /\ rcvd_idx' = rcvd_idx + 1
    /\ TryPutIndex(info, outstanding)
    /\ x_minibatch' = data.x
    /\ y_minibatch' = data.y
    /\ minibatch_src' = data.src
    /\ delivered' = Append(delivered, data.src)
    /\ pc' = "body"
    /\ UNCHANGED << order, shuffle_i, prefetch_k, workers_status, output >>

\* _next_data: the batch numbered rcvd_idx arrived earlier and is kept in
\* task_info.
NextCached ==
    /\ pc = "next"
    /\ rcvd_idx < send_idx
    /\ task_info[rcvd_idx].has_data
    /\ ProcessData(Restrict(task_info, (DOMAIN task_info) \ {rcvd_idx}),
                   tasks_outstanding, task_info[rcvd_idx].data)
    /\ UNCHANGED << data_queue, data_vars, worker_vars >>

\* _next_data: take one result from the result queue; yield it when it is the
\* batch numbered rcvd_idx, keep it in task_info otherwise.
NextGet ==
    /\ pc = "next"
    /\ rcvd_idx < send_idx
    /\ ~task_info[rcvd_idx].has_data
    /\ data_queue # << >>
    /\ LET item == Head(data_queue)
       IN  /\ data_queue' = Tail(data_queue)
           /\ IF item.idx # rcvd_idx
              THEN /\ task_info' = [task_info EXCEPT
                          ![item.idx].has_data = TRUE,
                          ![item.idx].data = item.data]
                   /\ tasks_outstanding' = tasks_outstanding - 1
                   /\ UNCHANGED << order, shuffle_i, prefetch_k, sampler_iter,
                                   index_queues, send_idx, rcvd_idx,
                                   worker_queue_idx_cycle, workers_status,
                                   pc, loop_vars >>
              ELSE ProcessData(
                       Restrict(task_info, (DOMAIN task_info) \ {item.idx}),
                       tasks_outstanding - 1, item.data)
    /\ UNCHANGED << data_vars, worker_vars >>

ShutdownAllButLast(queues) ==
    [w \in DOMAIN queues |->
        IF w < NumWorkers - 1 THEN Append(queues[w], ShutdownMsg)
        ELSE queues[w]]

\* _shutdown_workers: None is put on every worker's index queue.
ShutdownQueues(queues) ==
    [w \in DOMAIN queues |-> Append(queues[w], ShutdownMsg)]

\* _next_data: no task is outstanding (rcvd_idx reached send_idx): the workers
\* are told to exit and StopIteration ends the loop.
NextStop ==
    /\ pc = "next"
    /\ rcvd_idx >= send_idx
    /\ index_queues' = ShutdownQueues(index_queues)
    /\ workers_status' = [w \in Workers |-> FALSE]
    /\ pc' = "join"
    /\ UNCHANGED << order, shuffle_i, prefetch_k, sampler_iter, data_queue,
                    task_info, tasks_outstanding, send_idx, rcvd_idx,
                    worker_queue_idx_cycle, data_vars, worker_vars,
                    loop_vars >>

\* _shutdown_workers: join every worker process.
Join ==
    /\ pc = "join"
    /\ \A w \in Workers : w_state[w] = "exited"
    /\ pc' = "done"
    /\ UNCHANGED << loader_vars, data_vars, worker_vars, loop_vars >>

\* The loop body: print('Loaded minibatch of', len(x_minibatch), 'instances')
Body ==
    /\ pc = "body"
    /\ output' = Append(output, Len(x_minibatch))
    /\ pc' = "next"
    /\ UNCHANGED << loader_vars, data_vars, worker_vars, x_minibatch,
                    y_minibatch, minibatch_src, delivered >>

----------------------------------------------------------------------------
(* Worker processes: _worker_loop *)

\* One turn of the loop with a task: r = index_queue.get();
\* data = fetcher.fetch(index); data_queue.put((idx, data))
WorkerFetch(w) ==
    /\ w_state[w] = "idle"
    /\ index_queues[w] # << >>
    /\ Head(index_queues[w]) # ShutdownMsg
    /\ LET r == Head(index_queues[w])
           data == fetch(my_dataset, r.index)
       IN  data_queue' = Append(data_queue,
               [idx |-> r.idx,
                data |-> [x |-> data.x, y |-> data.y, src |-> r.index]])
    /\ index_queues' = [index_queues EXCEPT ![w] = Tail(@)]
    /\ w_fetched' = [w_fetched EXCEPT ![w] = @ + 1]
    /\ UNCHANGED << order, shuffle_i, prefetch_k, sampler_iter, task_info,
                    tasks_outstanding,
                    send_idx, rcvd_idx, worker_queue_idx_cycle,
                    workers_status, data_vars, pc, loop_vars, w_state >>

\* r = index_queue.get() is None: the worker leaves its loop
WorkerExit(w) ==
    /\ w_state[w] = "idle"
    /\ index_queues[w] # << >>
    /\ Head(index_queues[w]) = ShutdownMsg
    /\ w_state' = [w_state EXCEPT ![w] = "exited"]
    /\ index_queues' = [index_queues EXCEPT ![w] = Tail(@)]
    /\ UNCHANGED << order, shuffle_i, prefetch_k, sampler_iter, data_queue,
                    task_info, tasks_outstanding,
                    send_idx, rcvd_idx, worker_queue_idx_cycle,
                    workers_status, data_vars, pc, loop_vars, w_fetched >>

Worker(w) == WorkerFetch(w) \/ WorkerExit(w)

Main ==
    \/ Iter \/ RandPermStep \/ Reset \/ PrimePrefetch
    \/ NextCached \/ NextGet \/ NextStop \/ Join \/ Body

Next ==
    \/ Iter
    \/ RandPermStep
    \/ Reset
    \/ PrimePrefetch
    \/ NextCached
    \/ NextGet
    \/ NextStop
    \/ Join
    \/ Body
    \/ \E w \in Workers : WorkerFetch(w)
    \/ \E w \in Workers : WorkerExit(w)

Spec == Init /\ [][Next]_vars

\* The main process and every worker process keep being scheduled.  No step
\* of the loader reads a tensor's values, so one seed stands for all.
FairSpec ==
    /\ InitSeeded(0)
    /\ [][Next]_vars
    /\ WF_vars(Main)
    /\ \A w \in Workers : WF_vars(Worker(w))

TypeOK ==
    /\ pc \in {"iter", "shuffle", "prefetch", "next", "body", "join", "done"}
    /\ rcvd_idx <= send_idx
    /\ DOMAIN task_info \subseteq rcvd_idx..(send_idx - 1)

\* The assertion of _try_put_index: never more tasks outstanding than
\* prefetch_factor * num_workers.
OutstandingBounded ==
    tasks_outstanding \in 0..(PrefetchFactor * NumWorkers)

----------------------------------------------------------------------------
(* Properties *)

RECURSIVE SumSeq(_)
SumSeq(s) == IF s = << >> THEN 0 ELSE Head(s) + SumSeq(Tail(s))

RECURSIVE Flatten(_)
Flatten(ss) == IF ss = << >> THEN << >> ELSE Head(ss) \o Flatten(Tail(ss))

Quiescent ==
    /\ data_queue = << >>
    /\ task_info = << >>
    /\ tasks_outstanding = 0
    /\ sampler_iter = << >>
    /\ \A w \in Workers : index_queues[w] = << >> /\ w_state[w] = "exited"

\* C1: one epoch prints one line per batch: ceil(rows / batch_size) lines
\* (NumRows / BatchSize when the batch size divides the row count, as 100 / 10
\* in the script), every line then reporting exactly BatchSize rows, and the
\* rows reported add up to the row count; no line is ever printed beyond that,
\* for every shuffle order and every interleaving of the workers.
C1_EpochBatchCount ==
    /\ Len(output) <= CeilDiv(NumRows, BatchSize)
    /\ \A k \in 1..Len(output) : output[k] \in 1..BatchSize
    /\ NumRows % BatchSize = 0 =>
          \A k \in 1..Len(output) : output[k] = BatchSize
    /\ pc = "done" =>
          /\ Len(output) = CeilDiv(NumRows, BatchSize)
          /\ SumSeq(output) = NumRows

\* The epoch is over with one line of BatchSize rows per batch, some worker
\* having fetched more than one batch.
C1_Witness ==
    /\ pc = "done"
    /\ NumRows % BatchSize = 0
    /\ output = [k \in 1..(NumRows \div BatchSize) |-> BatchSize]
    /\ \E w \in Workers : w_fetched[w] >= 2

\* C2: the dataset has as many data points as x_data has rows, and
\* my_dataset[idx] is the pair (idx-th row of x_data, idx-th entry of y_data)
\* for every idx.
C2_DatasetRows ==
    /\ DatasetLen(my_dataset) = NumRows
    /\ \A idx \in Rows :
          GetItem(my_dataset, idx) = << x_data[idx], y_data[idx] >>

\* A worker has fetched rows of the dataset and their labels differ.
C2_Witness ==
    /\ data_queue # << >>
    /\ LET src == Head(data_queue).data.src
       IN  \E i, j \in 1..Len(src) :
              GetItem(my_dataset, src[i])[2] # GetItem(my_dataset, src[j])[2]

\* C3: with the main process and every worker scheduled fairly the loop
\* ends, and from then on every batch has been printed, no task or result is
\* pending and every worker has exited.
C3_EpochTerminates ==
    <>[](/\ pc = "done"
         /\ Len(output) = CeilDiv(NumRows, BatchSize)
         /\ Quiescent)

\* The loop is over and nothing is left behind.
C3_Witness ==
    /\ pc = "done"
    /\ Quiescent
    /\ Len(delivered) = CeilDiv(NumRows, BatchSize)

\* C4: no dataset index is delivered twice, and once the epoch is over every
\* index has been delivered: the delivered indices are a permutation of the
\* rows.
C4_DeliveredPermutation ==
    LET flat == Flatten(delivered)
    IN  /\ \A i, j \in 1..Len(flat) : flat[i] = flat[j] => i = j
        /\ \A i \in 1..Len(flat) : flat[i] \in Rows
        /\ pc = "done" => IsPermutation(flat, NumRows)

\* The epoch is over and the indices were not delivered in dataset order.
C4_Witness ==
    /\ pc = "done"
    /\ IsPermutation(Flatten(delivered), NumRows)
    /\ \E i \in 1..(NumRows - 1) :
          Flatten(delivered)[i] > Flatten(delivered)[i + 1]

\* C5: in the minibatch bound by the loop, x_minibatch and y_minibatch have
\* the same number of rows and position i of both holds the row and the label
\* of one dataset index.
C5_RowsStayPaired ==
    pc = "body" =>
        /\ Len(x_minibatch) = Len(y_minibatch)
        /\ Len(x_minibatch) = Len(minibatch_src)
        /\ \A i \in 1..Len(x_minibatch) :
              /\ x_minibatch[i] = x_data[minibatch_src[i]]
              /\ y_minibatch[i] = y_data[minibatch_src[i]]

\* A shuffled minibatch whose labels differ is in the loop body.
C5_Witness ==
    /\ pc = "body"
    /\ Len(y_minibatch) >= 2
    /\ y_minibatch[1] # y_minibatch[2]
    /\ minibatch_src[1] > minibatch_src[2]

\* C6: no step of the epoch changes the dataset: its length and the pair
\* returned for every index stay what they were.
C6_DatasetUnchanged ==
    [][/\ DatasetLen(my_dataset)' = DatasetLen(my_dataset)
       /\ DatasetLen(my_dataset)' = NumRows
       /\ \A idx \in Rows :
             GetItem(my_dataset, idx)' = GetItem(my_dataset, idx)]_vars

\* The epoch is over, having delivered batches out of dataset order.
C6_Witness ==
    /\ pc = "done"
    /\ Len(delivered) > 0
    /\ delivered[1][1] # 0
    /\ DatasetLen(my_dataset) = NumRows

====
